---------------------------- MODULE Spec2Model ----------------------------
(***************************************************************************)
(* Model of app.py, the Streamlit page "Emotion Detection & Storytelling". *)
(*                                                                         *)
(* The script is re-executed top to bottom on every widget interaction.    *)
(* One execution (a "run") is modelled statement by statement with a       *)
(* program counter pc named after the source line about to execute.  What  *)
(* survives between runs is the widget state (slider value, uploaded       *)
(* file), the st.cache_resource cache of the two loaders and the files on  *)
(* disk.  The page shown to the user (out) is rebuilt by every run.        *)
(*                                                                         *)
(* Strings whose characters matter (the label, the prompt, the download    *)
(* file name) are sequences of one-character strings, so that str.lower()  *)
(* is computed and not assumed.                                            *)
(***************************************************************************)
EXTENDS Integers, Sequences, FiniteSets, TLC

VARIABLES
    pc,              \* position of the script: "start", "done" or a line
    story_length,    \* value of the slider (line 45), widget state
    uploaded_file,   \* value of the file uploader (line 63), widget state
    process_button,  \* value st.button returns in this run (line 82)
    trigger,         \* the interaction that caused this run
    cache,           \* st.cache_resource entries of the two loaders
    body_runs,       \* how often each loader's body has executed
    first_ret,       \* what each loader returned on its first call
    tmpfiles,        \* number of temporary files of the app on disk
    tmp_path,        \* TRUE when tmp_path is bound in this run (line 74)
    image,           \* the decoded image of this run (line 78)
    emotion_pipe,    \* local of line 87
    story_pipe,      \* local of line 88
    emotion_pred,    \* local of line 93, optional
    generated_text,  \* local of line 120, optional
    calls,           \* inference calls made in this run, in order
    exc,             \* where an exception was raised inside the try block
    out              \* the page rendered by this run

vars == <<pc, story_length, uploaded_file, process_button, trigger, cache,
          body_runs,          first_ret, tmpfiles, tmp_path, image, emotion_pipe, story_pipe,
          emotion_pred, generated_text, calls, exc, out>>

-----------------------------------------------------------------------------
(* Bounds *)

MaxLabelLen == 2

MaxLeftover == 2

MaxBodyRuns == 2

-----------------------------------------------------------------------------
(* Program constants *)

SliderMin == 50

SliderMax == 200

SliderStep == 10

SliderDefault == 100

TemperatureTenths == 7

SliderValues == {v \in SliderMin..SliderMax : (v - SliderMin) % SliderStep = 0}

-----------------------------------------------------------------------------
(* Values *)

Nothing == <<>>

Some(x) == <<x>>

Alphabet == {"a", "A", "d"}

RECURSIVE SeqsUpTo(_)
SeqsUpTo(n) ==
    IF n = 0 THEN {<<>>}
    ELSE LET shorter == SeqsUpTo(n - 1)
         IN  shorter \cup {Append(s, c) : s \in shorter, c \in Alphabet}

\* label strings the classifier may return
Labels == SeqsUpTo(MaxLabelLen) \ {<<>>}

\* texts the generator may return
Texts == {"once upon a time", "the end"}

\* uploads: one that decodes and one that PIL rejects
Files == {"good", "bad"}

Loaders == {"emotion", "story"}

\* str.lower() on one character of the alphabet
LowerChar(c) ==
    CASE c = "A" -> "a"
      [] OTHER   -> c

\* str.lower()
lower(s) == [i \in 1..Len(s) |-> LowerChar(s[i])]

\* "Tell a short story about a "
PromptHead ==
    <<"T","e","l","l"," ","a"," ","s","h","o","r","t"," ","s","t","o","r","y",
      " ","a","b","o","u","t"," ","a"," ">>

\* " person"
PromptTail == <<" ","p","e","r","s","o","n">>

PromptVerbatim(label) == PromptHead \o label \o PromptTail

\* f"Tell a short story about a {emotion_pred.lower()} person"
Prompt(label) == PromptHead \o lower(label) \o PromptTail

StoryArgsDefaultLength(label, length) ==
    [prompt         |-> Prompt(label),
     max_length     |-> SliderDefault,
     max_new_tokens |-> length,
     do_sample      |-> TRUE,
     temperature    |-> TemperatureTenths]     \* in tenths: 0.7

\* the arguments of the story_pipe call
StoryArgs(label, length) ==
    [prompt         |-> Prompt(label),
     max_length     |-> length,
     max_new_tokens |-> length,
     do_sample      |-> TRUE,
     temperature    |-> TemperatureTenths]     \* in tenths: 0.7

FileNameVerbatim(label) ==
    <<"s","t","o","r","y","_">> \o label \o <<".","t","x","t">>

\* f"story_{emotion_pred.lower()}.txt"
FileName(label) ==
    <<"s","t","o","r","y","_">> \o lower(label) \o <<".","t","x","t">>

EitherLoaded(e, s) == e = "Pipe" \/ s = "Pipe"

\* if emotion_pipe and story_pipe:
BothLoaded(e, s) == e = "Pipe" /\ s = "Pipe"

AlwaysPressed(b) == TRUE

\* if process_button:
Pressed(b) == b

CacheNeverHit(c) == FALSE

\* @st.cache_resource: a stored entry (None included) is returned as is
CacheHit(c) == c # "Unset"

SampleAlways(f) == TRUE

\* if uploaded_file is None: (line 167)
ShowSample(f) == f = "None"

EmptyPage ==
    [info        |-> FALSE,      \* st.info of line 158
     image       |-> FALSE,      \* st.image of line 79
     button      |-> FALSE,      \* st.button of line 82
     load_errors |-> {},         \* st.error of lines 29 and 39
     subheader   |-> Nothing,    \* "Detected Emotion: ..." of line 108
     col2        |-> Nothing,    \* "Generated Story" panel, lines 125-139
     download    |-> Nothing,    \* st.download_button of line 142
     errors      |-> 0,          \* "Error processing image" of line 150
     sample      |-> FALSE,      \* "Sample Output" panel, line 169
     footer      |-> FALSE,      \* footer of line 178
     uncaught    |-> FALSE]      \* the run died of an uncaught exception

-----------------------------------------------------------------------------
Init ==
    /\ pc = "start"
    /\ story_length = SliderDefault
    /\ uploaded_file = "None"
    /\ process_button = FALSE
    /\ trigger = "none"
    /\ cache = [l \in Loaders |-> "Unset"]
    /\ body_runs = [l \in Loaders |-> 0]
    /\ first_ret = [l \in Loaders |-> "Unset"]
    /\ tmpfiles = 0
    /\ tmp_path = FALSE
    /\ image = "None"
    /\ emotion_pipe = "Unbound"
    /\ story_pipe = "Unbound"
    /\ emotion_pred = Nothing
    /\ generated_text = Nothing
    /\ calls = <<>>
    /\ exc = "None"
    /\ out = EmptyPage

\* A run starts with a fresh namespace and an empty page (lines 1-67).
BeginRun ==
    /\ pc' = "line70"
    /\ tmp_path' = FALSE
    /\ image' = "None"
    /\ emotion_pipe' = "Unbound"
    /\ story_pipe' = "Unbound"
    /\ emotion_pred' = Nothing
    /\ generated_text' = Nothing
    /\ calls' = <<>>
    /\ exc' = "None"
    /\ out' = EmptyPage
    /\ UNCHANGED <<cache, body_runs, first_ret, tmpfiles>>

-----------------------------------------------------------------------------
(* What makes the script run again.  A button reads TRUE only in the run   *)
(* its click triggers, and it can only be clicked if the page shows it.    *)

\* a browser session opens the page: widgets at their defaults
NewSession ==
    /\ pc \in {"start", "done"}
    /\ story_length' = SliderDefault
    /\ uploaded_file' = "None"
    /\ process_button' = FALSE
    /\ trigger' = "session"
    /\ BeginRun

\* the user moves the slider of line 45
MoveSlider ==
    /\ pc = "done"
    /\ \E v \in SliderValues \ {story_length} : story_length' = v
    /\ process_button' = FALSE
    /\ UNCHANGED uploaded_file
    /\ trigger' = "slider"
    /\ BeginRun

\* the user uploads, replaces or removes the file of line 63
ChangeUpload ==
    /\ pc = "done"
    /\ \E f \in (Files \cup {"None"}) \ {uploaded_file} : uploaded_file' = f
    /\ process_button' = FALSE
    /\ UNCHANGED story_length
    /\ trigger' = "upload"
    /\ BeginRun

\* the user clicks the button of line 82
ClickProcess ==
    /\ pc = "done"
    /\ out.button
    /\ process_button' = TRUE
    /\ UNCHANGED <<story_length, uploaded_file>>
    /\ trigger' = "process"
    /\ BeginRun

\* the user clicks the download button of line 142
ClickDownload ==
    /\ pc = "done"
    /\ out.download # Nothing
    /\ process_button' = FALSE
    /\ UNCHANGED <<story_length, uploaded_file>>
    /\ trigger' = "download"
    /\ BeginRun

-----------------------------------------------------------------------------
(* The statements of one run *)

\* lines 70, 156-164: no upload, show the instructions
NoUpload ==
    /\ pc = "line70"
    /\ uploaded_file = "None"
    /\ out' = [out EXCEPT !.info = TRUE]
    /\ pc' = "line167"
    /\ UNCHANGED <<story_length, uploaded_file, process_button, trigger, cache,
                   body_runs, first_ret, tmpfiles, tmp_path, image,
                   emotion_pipe, story_pipe, emotion_pred, generated_text,
                   calls, exc>>

\* lines 72-74: the upload is copied to a named temporary file kept on close.
\* Creating the file or writing to it may fail (OSError); neither statement
\* is inside the try block, so the exception ends the run.
SaveUpload ==
    /\ pc = "line70"
    /\ uploaded_file # "None"
    /\ \/ /\ tmpfiles' = tmpfiles + 1          \* created and written
          /\ tmp_path' = TRUE
          /\ pc' = "line78"
          /\ UNCHANGED out
       \/ /\ tmpfiles < MaxLeftover            \* created, write() raises
          /\ tmpfiles' = tmpfiles + 1
          /\ out' = [out EXCEPT !.uncaught = TRUE]
          /\ pc' = "done"
          /\ UNCHANGED tmp_path
       \/ /\ out' = [out EXCEPT !.uncaught = TRUE]   \* creation raises
          /\ pc' = "done"
          /\ UNCHANGED <<tmpfiles, tmp_path>>
    /\ UNCHANGED <<story_length, uploaded_file, process_button, trigger, cache,
                   body_runs, first_ret, image, emotion_pipe, story_pipe,
                   emotion_pred, generated_text, calls, exc>>

\* lines 78-79: decode and show the image
OpenImage ==
    /\ pc = "line78"
    /\ \/ /\ uploaded_file = "good"
          /\ image' = uploaded_file
          /\ out' = [out EXCEPT !.image = TRUE]
          /\ pc' = "line82"
          /\ UNCHANGED exc
       \/ /\ uploaded_file = "bad"
          /\ exc' = "decode"
          /\ pc' = "line150"
          /\ UNCHANGED <<image, out>>
    /\ UNCHANGED <<story_length, uploaded_file, process_button, trigger, cache,
                   body_runs, first_ret, tmpfiles, tmp_path, emotion_pipe,
                   story_pipe, emotion_pred, generated_text, calls>>

\* lines 82-84: render the button and branch on its value
Button ==
    /\ pc = "line82"
    /\ out' = [out EXCEPT !.button = TRUE]
    /\ pc' = IF Pressed(process_button) THEN "line87" ELSE "line153"
    /\ UNCHANGED <<story_length, uploaded_file, process_button, trigger, cache,
                   body_runs, first_ret, tmpfiles, tmp_path, image,
                   emotion_pipe, story_pipe, emotion_pred, generated_text,
                   calls, exc>>

\* A call of a loader decorated with @st.cache_resource (lines 22-40).  On a
\* miss the body runs: pipeline() returns a model, or raises and the body
\* reports the error and returns None; the return value is stored.  On a hit
\* the stored value is returned and the stored st.error is replayed.
CallLoader(l, ret) ==
    /\ IF CacheHit(cache[l])
       THEN /\ ret = cache[l]
            /\ UNCHANGED <<cache, body_runs>>
       ELSE /\ body_runs[l] < MaxBodyRuns
            /\ ret \in {"Pipe", "None"}
            /\ cache' = [cache EXCEPT ![l] = ret]
            /\ body_runs' = [body_runs EXCEPT ![l] = @ + 1]
    /\ first_ret' = IF first_ret[l] = "Unset"
                    THEN [first_ret EXCEPT ![l] = ret]
                    ELSE first_ret
    /\ out' = IF ret = "None"
              THEN [out EXCEPT !.load_errors = @ \cup {l}]
              ELSE out

\* line 87
LoadEmotion ==
    /\ pc = "line87"
    /\ \E ret \in {"Pipe", "None"} :
          /\ CallLoader("emotion", ret)
          /\ emotion_pipe' = ret
    /\ pc' = "line88"
    /\ UNCHANGED <<story_length, uploaded_file, process_button, trigger,
                   tmpfiles,                   tmp_path, image, story_pipe, emotion_pred, generated_text,
                   calls, exc>>

\* line 88
LoadStory ==
    /\ pc = "line88"
    /\ \E ret \in {"Pipe", "None"} :
          /\ CallLoader("story", ret)
          /\ story_pipe' = ret
    /\ pc' = "line90"
    /\ UNCHANGED <<story_length, uploaded_file, process_button, trigger,
                   tmpfiles,                   tmp_path, image, emotion_pipe, emotion_pred,
                   generated_text, calls, exc>>

\* line 90
CheckModels ==
    /\ pc = "line90"
    /\ pc' = IF BothLoaded(emotion_pipe, story_pipe) THEN "line93"
             ELSE "line153"
    /\ UNCHANGED <<story_length, uploaded_file, process_button, trigger, cache,
                   body_runs, first_ret, tmpfiles, tmp_path, image,
                   emotion_pipe, story_pipe, emotion_pred, generated_text,
                   calls, exc, out>>

\* line 93: emotion_pipe(image)[0]['label'] returns a label or raises
CallEmotion ==
    /\ pc = "line93"
    /\ \/ \E l \in Labels :
             /\ calls' = Append(calls, [fn     |-> "classifier",
                                        args   |-> [image |-> image],
                                        result |-> Some(l)])
             /\ emotion_pred' = Some(l)
             /\ pc' = "line108"
             /\ UNCHANGED exc
       \/ /\ calls' = Append(calls, [fn     |-> "classifier",
                                     args   |-> [image |-> image],
                                     result |-> Nothing])
          /\ exc' = "classifier"
          /\ pc' = "line150"
          /\ UNCHANGED emotion_pred
    /\ UNCHANGED <<story_length, uploaded_file, process_button, trigger, cache,
                   body_runs, first_ret, tmpfiles, tmp_path, image,
                   emotion_pipe, story_pipe, generated_text, out>>

SubheaderOmitted ==
    /\ pc = "line108"
    /\ pc' = "line112"
    /\ UNCHANGED <<story_length, uploaded_file, process_button, trigger, cache,
                   body_runs, first_ret, tmpfiles, tmp_path, image,
                   emotion_pipe, story_pipe, emotion_pred, generated_text,
                   calls, exc, out>>

\* lines 94-108: st.subheader(f"{emoji} Detected Emotion: {emotion_pred}")
Subheader ==
    /\ pc = "line108"
    /\ out' = [out EXCEPT !.subheader = emotion_pred]
    /\ pc' = "line112"
    /\ UNCHANGED <<story_length, uploaded_file, process_button, trigger, cache,
                   body_runs, first_ret, tmpfiles, tmp_path, image,
                   emotion_pipe, story_pipe, emotion_pred, generated_text,
                   calls, exc>>

CallStoryRetrying ==
    /\ pc = "line112"
    /\ \/ \E t \in Texts :
             /\ calls' = Append(calls,
                    [fn     |-> "generator",
                     args   |-> StoryArgs(emotion_pred[1], story_length),
                     result |-> Some(t)])
             /\ generated_text' = Some(t)
             /\ pc' = "line124"
       \/ /\ calls' = Append(calls,
                    [fn     |-> "generator",
                     args   |-> StoryArgs(emotion_pred[1], story_length),
                     result |-> Nothing])
          /\ pc' = "line112"
          /\ UNCHANGED generated_text
    /\ UNCHANGED <<story_length, uploaded_file, process_button, trigger, cache,
                   body_runs, first_ret, tmpfiles, tmp_path, image,
                   emotion_pipe, story_pipe, emotion_pred, exc, out>>

\* lines 111-121: story_pipe(...)[0]['generated_text'] returns or raises
CallStory ==
    /\ pc = "line112"
    /\ \/ \E t \in Texts :
             /\ calls' = Append(calls,
                    [fn     |-> "generator",
                     args   |-> StoryArgs(emotion_pred[1], story_length),
                     result |-> Some(t)])
             /\ generated_text' = Some(t)
             /\ pc' = "line124"
             /\ UNCHANGED exc
       \/ /\ calls' = Append(calls,
                    [fn     |-> "generator",
                     args   |-> StoryArgs(emotion_pred[1], story_length),
                     result |-> Nothing])
          /\ exc' = "generator"
          /\ pc' = "line150"
          /\ UNCHANGED generated_text
    /\ UNCHANGED <<story_length, uploaded_file, process_button, trigger, cache,
                   body_runs, first_ret, tmpfiles, tmp_path, image,
                   emotion_pipe, story_pipe, emotion_pred, out>>

\* lines 124-147: the story panel and the download button in col2
ShowResults ==
    /\ pc = "line124"
    /\ out' = [out EXCEPT
                 !.col2 = Some([label |-> emotion_pred[1],
                                text  |-> generated_text[1]]),
                 !.download = Some([data      |-> generated_text[1],
                                    file_name |-> FileName(emotion_pred[1]),
                                    mime      |-> "text/plain"])]
    /\ pc' = "line153"
    /\ UNCHANGED <<story_length, uploaded_file, process_button, trigger, cache,
                   body_runs, first_ret, tmpfiles, tmp_path, image,
                   emotion_pipe, story_pipe, emotion_pred, generated_text,
                   calls, exc>>

ExceptReraise ==
    /\ pc = "line150"
    /\ out' = [out EXCEPT !.uncaught = TRUE]
    /\ tmpfiles' = tmpfiles - 1
    /\ pc' = "done"
    /\ UNCHANGED <<story_length, uploaded_file, process_button, trigger, cache,
                   body_runs, first_ret, tmp_path, image, emotion_pipe,
                   story_pipe, emotion_pred, generated_text, calls, exc>>

\* lines 149-150: except Exception as e: st.error("Error processing image")
Except ==
    /\ pc = "line150"
    /\ out' = [out EXCEPT !.errors = @ + 1]
    /\ pc' = "line153"
    /\ UNCHANGED <<story_length, uploaded_file, process_button, trigger, cache,
                   body_runs, first_ret, tmpfiles, tmp_path, image,
                   emotion_pipe, story_pipe, emotion_pred, generated_text,
                   calls, exc>>

\* lines 151-154: finally: remove the temporary file if it exists
Finally ==
    /\ pc = "line153"
    /\ tmpfiles' = IF tmp_path THEN tmpfiles - 1 ELSE tmpfiles
    /\ pc' = "line167"
    /\ UNCHANGED <<story_length, uploaded_file, process_button, trigger, cache,
                   body_runs, first_ret, tmp_path, image, emotion_pipe,
                   story_pipe, emotion_pred, generated_text, calls, exc, out>>

\* lines 167-175: the sample panel in col2
SampleOutput ==
    /\ pc = "line167"
    /\ out' = [out EXCEPT !.sample = ShowSample(uploaded_file)]
    /\ pc' = "line178"
    /\ UNCHANGED <<story_length, uploaded_file, process_button, trigger, cache,
                   body_runs, first_ret, tmpfiles, tmp_path, image,
                   emotion_pipe, story_pipe, emotion_pred, generated_text,
                   calls, exc>>

\* lines 178-184: the footer; the run is over
Footer ==
    /\ pc = "line178"
    /\ out' = [out EXCEPT !.footer = TRUE]
    /\ pc' = "done"
    /\ UNCHANGED <<story_length, uploaded_file, process_button, trigger, cache,
                   body_runs, first_ret, tmpfiles, tmp_path, image,
                   emotion_pipe, story_pipe, emotion_pred, generated_text,
                   calls, exc>>

Next ==
    \/ NewSession
    \/ MoveSlider
    \/ ChangeUpload
    \/ ClickProcess
    \/ ClickDownload
    \/ NoUpload
    \/ SaveUpload
    \/ OpenImage
    \/ Button
    \/ LoadEmotion
    \/ LoadStory
    \/ CheckModels
    \/ CallEmotion
    \/ Subheader
    \/ CallStory
    \/ ShowResults
    \/ Except
    \/ Finally
    \/ SampleOutput
    \/ Footer

Spec == Init /\ [][Next]_vars

-----------------------------------------------------------------------------
(* Properties *)

\* the calls of the text generator made in this run
GeneratorCalls == {i \in 1..Len(calls) : calls[i].fn = "generator"}

HasUpper(label) == \E i \in 1..Len(label) : label[i] = "A"

\* C1: the inference calls of a run are a prefix of <<classifier, generator>>:
\* at most one call of each, the generator only after the classifier returned
\* a label in this run, and no call after one that raised.
C1_SequentialNoRetry ==
    /\ Len(calls) <= 2
    /\ Len(calls) >= 1 => calls[1].fn = "classifier"
    /\ Len(calls) = 2 => /\ calls[2].fn = "generator"
                         /\ calls[1].result # Nothing
                         /\ emotion_pred = calls[1].result

\* a finished run in which the generator raised and was not called again
C1_Witness ==
    /\ pc = "done"
    /\ Len(calls) = 2
    /\ calls[2].result = Nothing

\* C2 as stated: the prompt passed to the generator embeds the label exactly
\* as the classifier returned it.
C2_PromptVerbatim ==
    \A i \in GeneratorCalls :
        calls[i].args.prompt = PromptHead \o calls[1].result[1] \o PromptTail

\* C2 amended: the prompt is "Tell a short story about a ", the label with
\* every upper-case character replaced by its lower-case one, " person".
C2_PromptLowercased ==
    \A i \in GeneratorCalls :
        LET label == calls[1].result[1]
            p     == calls[i].args.prompt
            h     == Len(PromptHead)
        IN  /\ Len(p) = h + Len(label) + Len(PromptTail)
            /\ SubSeq(p, 1, h) = PromptHead
            /\ SubSeq(p, h + Len(label) + 1, Len(p)) = PromptTail
            /\ \A k \in 1..Len(label) :
                  p[h + k] = IF label[k] = "A" THEN "a" ELSE label[k]

\* the generator was called for a label that has an upper-case character
C2_Witness ==
    /\ GeneratorCalls # {}
    /\ HasUpper(calls[1].result[1])

\* C3: each loader's body executes at most once in the life of the process
\* and every call of a loader returns what its first call returned.
C3_Memoized ==
    /\ \A l \in Loaders : body_runs[l] <= 1
    /\ emotion_pipe # "Unbound" => emotion_pipe = first_ret["emotion"]
    /\ story_pipe # "Unbound" => story_pipe = first_ret["story"]

\* a later run (the story loader already returned in an earlier one) in which
\* the emotion loader returned the None of its failed first call
C3_Witness ==
    /\ pc = "line88"
    /\ first_ret["story"] # "Unset"
    /\ emotion_pipe = "None"
    /\ body_runs["emotion"] = 1

\* C4: an exception raised by the decoding, the classifier or the generator
\* yields exactly one "Error processing image" message, no story panel and no
\* download button, and the run goes on to the footer.
C4_SingleCatchAll ==
    /\ out.errors <= 1
    /\ exc # "None" /\ pc \in {"line153", "line167", "line178", "done"}
          => out.errors = 1
    /\ exc # "None" => out.col2 = Nothing /\ out.download = Nothing
    /\ exc # "None" /\ pc = "done" => out.footer /\ ~out.uncaught
    /\ exc = "None" => out.errors = 0

\* a finished run in which the classifier raised
C4_Witness ==
    /\ pc = "done"
    /\ exc = "classifier"
    /\ out.errors = 1
    /\ out.footer

\* C5: when both inference calls returned, col2 shows the label and the text
\* as returned, and the download offers that text as story_<lower label>.txt.
C5_ResultsRendered ==
    pc = "done" /\ Len(calls) = 2 /\ calls[2].result # Nothing =>
        LET label == calls[1].result[1]
            text  == calls[2].result[1]
        IN  /\ out.col2 = Some([label |-> label, text |-> text])
            /\ out.download # Nothing
            /\ out.download[1].data = out.col2[1].text
            /\ Len(out.download[1].file_name) = Len(label) + 10
            /\ SubSeq(out.download[1].file_name, 1, 6)
                  = <<"s","t","o","r","y","_">>
            /\ SubSeq(out.download[1].file_name, Len(label) + 7,
                      Len(label) + 10) = <<".","t","x","t">>
            /\ \A k \in 1..Len(label) :
                  out.download[1].file_name[6 + k] =
                      IF label[k] = "A" THEN "a" ELSE label[k]

\* a finished run that rendered the results for a label with an upper-case
\* character
C5_Witness ==
    /\ pc = "done"
    /\ out.download # Nothing
    /\ out.col2 # Nothing
    /\ HasUpper(out.col2[1].label)

\* C6: the slider value is always one of 50, 60, ..., 200 and starts at 100;
\* every generator call carries the prompt, temperature 0.7 and the slider
\* value as both max_length and max_new_tokens.
C6_SamplingParameters ==
    /\ story_length \in {50 + 10 * k : k \in 0..15}
    /\ pc = "start" => story_length = 100
    /\ \A i \in GeneratorCalls :
          /\ calls[i].args.temperature = 7       \* in tenths
          /\ calls[i].args.max_length = story_length
          /\ calls[i].args.max_new_tokens = calls[i].args.max_length
          /\ calls[i].args.prompt # <<>>

\* the generator was called with the slider moved to its maximum
C6_Witness ==
    /\ GeneratorCalls # {}
    /\ story_length = 200

\* C7 as stated: a run shows the detected emotion exactly if it shows the
\* generated story.
C7_LabelIffStory ==
    pc = "done" => (out.subheader # Nothing <=> out.col2 # Nothing)

\* C7 amended: the story is shown only together with the detected emotion,
\* and a run whose generator call raised ends showing the detected emotion
\* without a story.
C7_StoryOnlyWithLabel ==
    /\ out.col2 # Nothing => out.subheader = Some(out.col2[1].label)
    /\ pc = "done" /\ exc = "generator"
          => out.subheader = emotion_pred /\ out.subheader # Nothing
             /\ out.col2 = Nothing

\* a finished run that shows the detected emotion and no story
C7_Witness ==
    /\ pc = "done"
    /\ exc = "generator"
    /\ out.subheader # Nothing
    /\ out.col2 = Nothing

\* C8: when a run is over, no temporary file of the app is left on disk.
C8_NoTempFileLeft ==
    pc = "done" => tmpfiles = 0

\* C9: inference happens only for a decoded upload, with the button pressed
\* and both models loaded; with a loader returning None nothing is inferred or
\* rendered, and line 88 is reached whatever line 87 returned.
C9_InferenceGated ==
    /\ calls # <<>> => /\ uploaded_file # "None"
                       /\ image = uploaded_file
                       /\ process_button
                       /\ emotion_pipe = "Pipe"
                       /\ story_pipe = "Pipe"
    /\ emotion_pipe = "None" \/ story_pipe = "None"
          => /\ calls = <<>>
             /\ out.subheader = Nothing
             /\ out.col2 = Nothing
             /\ out.download = Nothing
    /\ pc = "done" /\ emotion_pipe # "Unbound" => story_pipe # "Unbound"

\* a finished run in which the emotion loader returned None and the story
\* loader was called and returned a model
C9_Witness ==
    /\ pc = "done"
    /\ emotion_pipe = "None"
    /\ story_pipe = "Pipe"
    /\ calls = <<>>

\* C10: the label, the story and the download button are rendered only in a
\* run whose button press is TRUE; the sample panel is rendered exactly if no
\* file is uploaded, and never together with a story.
C10_Transient ==
    /\ out.subheader # Nothing \/ out.col2 # Nothing \/ out.download # Nothing
          => process_button /\ trigger = "process"
    /\ pc = "done" /\ out.footer => (out.sample <=> uploaded_file = "None")
    /\ out.sample => uploaded_file = "None"
    /\ ~(out.sample /\ out.col2 # Nothing)

\* the run triggered by clicking the download button of an earlier run's
\* story is over and shows neither label nor story
C10_Witness ==
    /\ pc = "done"
    /\ trigger = "download"
    /\ out.footer
    /\ out.subheader = Nothing
    /\ out.col2 = Nothing

=============================================================================
